---- MODULE Spec2Model ----
(***************************************************************************)
(* Model of the build-matrix orchestrator of conan-hal-command:           *)
(* hal_build_matrix and hal_package in extensions/commands/cmd_hal.py.    *)
(*                                                                         *)
(* One coordinating thread validates the manifest, (build mode) installs  *)
(* every profile sequentially, submits one build_profile job per profile  *)
(* to a ThreadPoolExecutor of args.jobs workers, collects the futures as  *)
(* they complete and prints the summary.  Every external command and      *)
(* every filesystem call is an input of the environment: its outcome is   *)
(* chosen nondeterministically where the code makes the call.             *)
(***************************************************************************)
EXTENDS Integers, Sequences, FiniteSets, TLC

\* Number of profiles returned by generate_all_profiles() (the real table
\* yields 177; the orchestration code is uniform in the profile).
NumProfiles == 2

\* Largest --jobs value explored; args.jobs ranges over 0..MaxJobs.
MaxJobs == 2

Profiles == 1..NumProfiles

VARIABLES
    mode,            \* "build" (hal_build_matrix) or "package" (hal_package)
    hasManifest,     \* (BUILD_PATH / "conanfile.py").exists()
    priorRun,        \* TRUE when an earlier run left build-matrix/ behind
    jobs,            \* args.jobs
    pc,              \* position of the coordinating thread
    exitCode,        \* value returned by the command, NoExit before it returns
    fs,              \* filesystem under BUILD_PATH: path -> content
    inst,            \* build mode: state of the install of each profile
    installs,        \* number of `conan install` processes spawned per profile
    jpc,             \* position of build_profile(profile) for each profile
    kind,            \* which `with lock` block the job is heading to or is in
    cmd,             \* what the job's external command did
    started,         \* number of `conan build`/`conan create` spawned per profile
    lock,            \* threading.Lock(): 0 when free, else the holding job
    tmp,             \* value of completed_count loaded by a job's `+= 1`
    completed_count, \* nonlocal completed_count
    progress,        \* the progress lines logged so far
    future,          \* state of the Future of each job
    result,          \* the BuildProfileResult a finished Future holds
    status,          \* classification of each finished job
    collected,       \* futures already yielded by as_completed
    failed_builds,   \* failed_builds list of the coordinator
    summary,         \* the summary block once printed
    wrote,           \* paths each writer has created or written in this run
    continue_on_error, \* args.continue_on_error
    timeout,         \* timeout= of the subprocess.run call of each job, 0 before
    log_writes,      \* completed LOG_FILE.write_text calls of each job
    notice,          \* seconds stated by the timeout notice in each log, 0 if none
    gen,             \* generate_arm_cortex_m_profiles: its loops and its list
    ver              \* version_compare: its arguments and its results

vars == << mode, hasManifest, priorRun, jobs, pc, exitCode, fs, inst, installs,
           jpc, kind, cmd, started, lock, tmp, completed_count, progress,
           future, result, status, collected, failed_builds, summary,
           wrote, continue_on_error, timeout, log_writes, notice, gen, ver >>

NoExit == 0 - 1
NoSummary == [total |-> 0, processed |-> 0, succeeded |-> 0, failed |-> 0]

-----------------------------------------------------------------------------
(* Paths: class Profile                                                    *)

None == << >>
BUILD_DIR == << "build-matrix" >>
build_dir(p) == << "build-matrix", p >>
profile_path(p) == << "build-matrix", p, "profile" >>
\* One log file for the whole matrix instead of one per profile.
log_fileShared(p) == << "build-matrix", 0, "log" >>
log_file(p) == << "build-matrix", p, "log" >>

Paths == {BUILD_DIR} \cup {build_dir(p) : p \in Profiles}
            \cup {profile_path(p) : p \in Profiles}
            \cup {log_file(p) : p \in Profiles}

\* The filesystem before the run: empty, or what an earlier run left there.
InitialFs(prior) ==
    [q \in Paths |->
        IF ~prior THEN "absent"
        ELSE IF q = BUILD_DIR \/ q \in {build_dir(p) : p \in Profiles} THEN "dir"
        ELSE "stale"]

\* A result that forgets the log path.
BuildProfileResultWithoutLog(profile_name, success, logfile) ==
    [profile_name |-> profile_name, success |-> success, log_file |-> None]
BuildProfileResult(profile_name, success, logfile) ==
    [profile_name |-> profile_name, success |-> success, log_file |-> logfile]

NoResult == [profile_name |-> 0, success |-> FALSE, log_file |-> None]

\* PROFILE_BUILD_DIR.mkdir(exist_ok=True); profile_path().write_text(content)
\* with io the outcome of the two calls.
MaterializeOutcomes == {"ok", "mkdir_error", "write_error"}
MaterializeKeepingExisting(f, p, io) ==
    IF io = "mkdir_error" THEN f
    ELSE IF io = "write_error" THEN [f EXCEPT ![build_dir(p)] = "dir"]
    ELSE [f EXCEPT ![build_dir(p)] = "dir",
                   ![profile_path(p)] = IF @ = "absent" THEN "profile" ELSE @]
Materialize(f, p, io) ==
    IF io = "mkdir_error" THEN f
    ELSE IF io = "write_error" THEN [f EXCEPT ![build_dir(p)] = "dir"]
    ELSE [f EXCEPT ![build_dir(p)] = "dir", ![profile_path(p)] = "profile"]

\* mkdir(exist_ok=True) raises FileExistsError only for an existing path
\* that is not a directory; any other OSError is up to the environment.
MkdirRaises(f, q) == f[q] \notin {"absent", "dir"}
MaterializeOutcomesAt(f, p) ==
    IF MkdirRaises(f, build_dir(p)) THEN {"mkdir_error"} ELSE MaterializeOutcomes

\* The paths the two calls have created or written.
Touched(p, io) ==
    IF io = "ok" THEN {build_dir(p), profile_path(p)}
    ELSE IF io = "write_error" THEN {build_dir(p)}
    ELSE {}

-----------------------------------------------------------------------------
(* generate_arm_cortex_m_profiles and its version_compare                  *)
(*                                                                         *)
(* A version string is kept as its sequence of characters, so that         *)
(* split('.') and int() are computed as the code computes them.            *)

RECURSIVE Str(_)
Str(cs) == IF cs = << >> THEN "" ELSE Head(cs) \o Str(Tail(cs))

DigitValue(ch) ==
    CASE ch = "0" -> 0 [] ch = "1" -> 1 [] ch = "2" -> 2 [] ch = "3" -> 3
      [] ch = "4" -> 4 [] ch = "5" -> 5 [] ch = "6" -> 6 [] ch = "7" -> 7
      [] ch = "8" -> 8 [] ch = "9" -> 9

\* int(x) of a string of decimal digits
RECURSIVE ToInt(_)
ToInt(ds) ==
    IF ds = << >> THEN 0
    ELSE 10 * ToInt(SubSeq(ds, 1, Len(ds) - 1)) + DigitValue(ds[Len(ds)])

\* v.split('.'): the pieces between the dots
RECURSIVE Split(_)
Split(cs) ==
    IF \A i \in 1..Len(cs) : cs[i] # "."
    THEN << cs >>
    ELSE LET d == CHOOSE i \in 1..Len(cs) :
                     cs[i] = "." /\ \A j \in 1..(i - 1) : cs[j] # "."
         IN << SubSeq(cs, 1, d - 1) >> \o Split(SubSeq(cs, d + 1, Len(cs)))

\* [int(x) for x in v.split('.')]
Parts(v) == LET xs == Split(v) IN [i \in 1..Len(xs) |-> ToInt(xs[i])]

Max(m, n) == IF m >= n THEN m ELSE n

\* The loop `for i in range(n)` of version_compare from index i on.
RECURSIVE CompareFrom(_, _, _, _)
CompareFrom(v1_parts, v2_parts, i, n) ==
    IF i > n THEN 0
    ELSE LET part1 == IF i <= Len(v1_parts) THEN v1_parts[i] ELSE 0
             part2 == IF i <= Len(v2_parts) THEN v2_parts[i] ELSE 0
         IN IF part1 < part2 THEN 0 - 1
            ELSE IF part1 > part2 THEN 1
            ELSE CompareFrom(v1_parts, v2_parts, i + 1, n)

version_compareTruncating(v1, v2) ==
    CompareFrom(Parts(v1), Parts(v2), 1,
                IF Len(Parts(v1)) <= Len(Parts(v2))
                THEN Len(Parts(v1)) ELSE Len(Parts(v2)))
version_compare(v1, v2) ==
    CompareFrom(Parts(v1), Parts(v2), 1, Max(Len(Parts(v1)), Len(Parts(v2))))

compilers ==
    << [compiler |-> "gcc",
        package |-> "arm-gnu-toolchain",
        versions |-> << << "1", "2", ".", "3" >>, << "1", "3", ".", "2" >>,
                        << "1", "3", ".", "3" >>, << "1", "4", ".", "2" >> >>] >>

\* An entry without minimum compiler version has min_version = None.
Arch(name) == [arch |-> name, min_version |-> None]
architectures ==
    << Arch("cortex-m0"), Arch("cortex-m0plus"), Arch("cortex-m1"),
       Arch("cortex-m3"), Arch("cortex-m4"), Arch("cortex-m4f"),
       Arch("cortex-m7"), Arch("cortex-m7f"), Arch("cortex-m7d"),
       Arch("cortex-m23"), Arch("cortex-m33"), Arch("cortex-m33f"),
       Arch("cortex-m35pf"), Arch("cortex-m55"),
       [arch |-> "cortex-m85", min_version |-> << "1", "3", ".", "2" >>] >>

build_types == << "Debug", "Release", "MinSizeRel" >>

\* if min_version and version_compare(version, min_version) < 0: continue
SkippedInclusive(version, min_version) ==
    min_version # None /\ version_compare(version, min_version) <= 0
Skipped(version, min_version) ==
    min_version # None /\ version_compare(version, min_version) < 0

\* NAME = f"{arch}-{compiler}-{version}-{build_type}"
NAMEWithoutBuildType(arch, compiler, version, build_type) ==
    arch \o "-" \o compiler \o "-" \o Str(version)
NAME(arch, compiler, version, build_type) ==
    arch \o "-" \o compiler \o "-" \o Str(version) \o "-" \o build_type

\* TEXT = f"""[settings] ... [tool_requires] ..."""
TEXT(arch, compiler, version, build_type, compiler_package) ==
    "[settings]\nos=baremetal\narch=" \o arch
        \o "\ncompiler=" \o compiler
        \o "\ncompiler.version=" \o Str(version)
        \o "\ncompiler.libcxx=libstdc++11\ncompiler.cppstd=23\nbuild_type="
        \o build_type
        \o "\n\n[tool_requires]\n" \o compiler_package \o "/" \o Str(version)

\* Profile(NAME, TEXT); dims records the tuple the profile was made from.
Profile(arch, compiler, version, build_type, compiler_package) ==
    [name |-> NAME(arch, compiler, version, build_type),
     content |-> TEXT(arch, compiler, version, build_type, compiler_package),
     dims |-> << arch, compiler, version, build_type >>]

\* The generator before its loops: c, a, v, b are the positions of the four
\* nested loops (compiler, architecture, version, build type).
GenStart == [pc |-> "loop", c |-> 1, a |-> 1, v |-> 1, b |-> 1, profiles |-> << >>]

\* The positions after the build-type loop of (c, a, v) is left.
AfterVersion(g) ==
    IF g.v < Len(compilers[g.c].versions)
    THEN [g EXCEPT !.v = g.v + 1, !.b = 1]
    ELSE IF g.a < Len(architectures)
    THEN [g EXCEPT !.a = g.a + 1, !.v = 1, !.b = 1]
    ELSE IF g.c < Len(compilers)
    THEN [g EXCEPT !.c = g.c + 1, !.a = 1, !.v = 1, !.b = 1]
    ELSE [g EXCEPT !.pc = "return"]

\* Inputs of version_compare: dotted versions of 1..MaxParts components.
MaxParts == 2
Numerals == { << "0" >>, << "3" >>, << "3", "0" >> }
RECURSIVE VersionsOf(_)
VersionsOf(n) ==
    IF n = 1 THEN Numerals
    ELSE { x \o << "." >> \o y : x \in VersionsOf(n - 1), y \in Numerals }
Versions == UNION { VersionsOf(n) : n \in 1..MaxParts }

VerIdle == [pc |-> "idle", a |-> << >>, b |-> << >>, c |-> << >>,
            ab |-> 0, ba |-> 0, bc |-> 0, ac |-> 0, aa |-> 0]

-----------------------------------------------------------------------------
OrchestratorInit ==
    /\ mode \in {"build", "package"}
    /\ hasManifest \in BOOLEAN
    /\ priorRun \in BOOLEAN
    /\ jobs \in 0..MaxJobs
    /\ pc = "start"
    /\ exitCode = NoExit
    /\ fs = InitialFs(priorRun)
    /\ inst = [p \in Profiles |-> "pending"]
    /\ installs = [p \in Profiles |-> 0]
    /\ jpc = [p \in Profiles |-> "pending"]
    /\ kind = [p \in Profiles |-> "none"]
    /\ cmd = [p \in Profiles |-> "none"]
    /\ started = [p \in Profiles |-> 0]
    /\ lock = 0
    /\ tmp = [p \in Profiles |-> 0]
    /\ completed_count = 0
    /\ progress = << >>
    /\ future = [p \in Profiles |-> "none"]
    /\ result = [p \in Profiles |-> NoResult]
    /\ status = [p \in Profiles |-> "none"]
    /\ collected = {}
    /\ failed_builds = << >>
    /\ summary = NoSummary
    /\ wrote = [w \in 0..NumProfiles |-> {}]
    /\ continue_on_error \in BOOLEAN
    /\ timeout = [p \in Profiles |-> 0]
    /\ log_writes = [p \in Profiles |-> 0]
    /\ notice = [p \in Profiles |-> 0]

\* A run of hal_build_matrix or hal_package.  The orchestration is followed
\* over the profiles 1..NumProfiles; the generator itself is followed over
\* its real tables by GeneratorSpec.
Init ==
    /\ OrchestratorInit
    /\ gen = GenStart
    /\ ver = VerIdle

-----------------------------------------------------------------------------
(* Coordinator: manifest check and build-matrix directory                 *)

ManifestCheckSkipped == TRUE
ManifestCheckPasses == hasManifest

CheckManifest ==
    /\ pc = "start"
    /\ IF ~ManifestCheckPasses
       THEN /\ pc' = "done"
            /\ exitCode' = 1
            /\ fs' = fs
            /\ wrote' = wrote
       ELSE \E ok \in BOOLEAN :
            IF ok
            THEN /\ fs' = [fs EXCEPT ![BUILD_DIR] = "dir"]
                 /\ wrote' = [wrote EXCEPT ![0] = @ \cup {BUILD_DIR}]
                 /\ pc' = IF mode = "build" THEN "install" ELSE "pool"
                 /\ exitCode' = exitCode
            ELSE /\ fs' = fs
                 /\ wrote' = wrote
                 /\ pc' = "aborted"
                 /\ exitCode' = exitCode
    /\ UNCHANGED << gen, ver, continue_on_error, timeout, log_writes, notice, mode, hasManifest, priorRun, jobs, inst, installs, jpc, kind,
                    cmd, started, lock, tmp, completed_count, progress, future,
                    result, status, collected, failed_builds, summary >>

-----------------------------------------------------------------------------
(* Coordinator, build mode: sequential install pre-phase                   *)

\* The profile the `for profile in profiles` loop is at, 0 after the loop.
InstallCursor ==
    IF \E p \in Profiles : inst[p] \in {"pending", "running"}
    THEN CHOOSE p \in Profiles :
            /\ inst[p] \in {"pending", "running"}
            /\ \A q \in Profiles : inst[q] \in {"pending", "running"} => p <= q
    ELSE 0

\* subprocess.run(..., check=True, timeout=30) raises CalledProcessError on
\* a non-zero exit and TimeoutExpired on a timeout.
InstallOutcomes == {"exit0", "exitN", "timeout"}
InstallRaisesUnchecked(o) == o = "timeout"
\* An install loop that honours --continue-on-error.
InstallRaisesUnlessContinuing(o) == o # "exit0" /\ ~continue_on_error
InstallRaises(o) == o # "exit0"

\* Materialize the profile and spawn `conan install`; an OSError of mkdir,
\* write_text or the spawn leaves the command.
InstallStart ==
    /\ pc = "install"
    /\ InstallCursor # 0
    /\ inst[InstallCursor] = "pending"
    /\ LET p == InstallCursor IN
       \E io \in MaterializeOutcomesAt(fs, p), spawned \in BOOLEAN :
          /\ fs' = Materialize(fs, p, io)
          /\ wrote' = [wrote EXCEPT ![0] = @ \cup Touched(p, io)]
          /\ IF io = "ok" /\ spawned
             THEN /\ inst' = [inst EXCEPT ![p] = "running"]
                  /\ installs' = [installs EXCEPT ![p] = @ + 1]
                  /\ pc' = pc
             ELSE /\ inst' = [inst EXCEPT ![p] = "error"]
                  /\ installs' = installs
                  /\ pc' = "aborted"
    /\ UNCHANGED << gen, ver, continue_on_error, timeout, log_writes, notice, mode, hasManifest, priorRun, jobs, exitCode, jpc, kind, cmd,
                    started, lock, tmp, completed_count, progress, future,
                    result, status, collected, failed_builds, summary >>

\* `conan install` ends: the loop goes on, or the exception leaves the command.
InstallEnd ==
    /\ pc = "install"
    /\ InstallCursor # 0
    /\ inst[InstallCursor] = "running"
    /\ LET p == InstallCursor IN
       \E o \in InstallOutcomes :
          /\ inst' = [inst EXCEPT ![p] = o]
          /\ pc' = IF InstallRaises(o) THEN "aborted"
                   ELSE IF p = NumProfiles THEN "pool" ELSE "install"
    /\ UNCHANGED << wrote, gen, ver, continue_on_error, timeout, log_writes, notice, mode, hasManifest, priorRun, jobs, exitCode, fs, installs, jpc,
                    kind, cmd, started, lock, tmp, completed_count, progress,
                    future, result, status, collected, failed_builds, summary >>

-----------------------------------------------------------------------------
(* Coordinator: executor.submit(build_profile, profile) for every profile  *)

\* ThreadPoolExecutor(max_workers=args.jobs) raises ValueError for a width
\* that is not positive.
CreateExecutor ==
    /\ pc = "pool"
    /\ pc' = IF jobs <= 0 THEN "aborted" ELSE "submit"
    /\ UNCHANGED << wrote, gen, ver, continue_on_error, timeout, log_writes, notice, mode, hasManifest, priorRun, jobs, exitCode, fs, inst, installs,
                    jpc, kind, cmd, started, lock, tmp, completed_count, progress,
                    future, result, status, collected, failed_builds, summary >>

NextSubmit ==
    CHOOSE p \in Profiles :
        /\ jpc[p] = "pending"
        /\ \A q \in Profiles : jpc[q] = "pending" => p <= q

Submit ==
    /\ pc = "submit"
    /\ LET p == NextSubmit IN
          /\ jpc' = [jpc EXCEPT ![p] = "queued"]
          /\ future' = [future EXCEPT ![p] = "pending"]
          /\ pc' = IF p = NumProfiles THEN "collect" ELSE "submit"
    /\ UNCHANGED << wrote, gen, ver, continue_on_error, timeout, log_writes, notice, mode, hasManifest, priorRun, jobs, exitCode, fs, inst, installs,
                    kind, cmd, started, lock, tmp, completed_count, progress,
                    result, status, collected, failed_builds, summary >>

-----------------------------------------------------------------------------
(* Worker pool: ThreadPoolExecutor(max_workers=args.jobs)                  *)

\* Jobs a worker thread is executing.
Active == {p \in Profiles : jpc[p] \in {"running", "relock", "inlock"}}

PoolUnbounded == TRUE
PoolHasFreeWorker == Cardinality(Active) < jobs

\* The work queue is FIFO: a free worker takes the oldest queued item.
QueueHead(p) ==
    /\ jpc[p] = "queued"
    /\ \A q \in Profiles : jpc[q] = "queued" => p <= q

\* The job ends with an exception that no handler of build_profile catches:
\* the Future holds the exception.
Escapes(p) ==
    /\ jpc' = [jpc EXCEPT ![p] = "done"]
    /\ future' = [future EXCEPT ![p] = "exception"]
    /\ status' = [status EXCEPT ![p] = "InternalError"]
    /\ result' = result

\* timeout= passed to subprocess.run by build_profile, and the duration the
\* TimeoutExpired handler writes into the log, in seconds.
BUILD_TIMEOUT == 300
PACKAGE_TIMEOUT == 300
BUILD_NOTICE == 600
PACKAGE_NOTICE == 300
JobTimeout(m) == IF m = "build" THEN BUILD_TIMEOUT ELSE PACKAGE_TIMEOUT
NoticeSeconds(m) == IF m = "build" THEN BUILD_NOTICE ELSE PACKAGE_NOTICE

\* A worker takes the job and runs build_profile up to subprocess.run:
\* package mode materializes the profile first, outside the try block;
\* a failing spawn is caught by `except Exception`.
StartJob(p) ==
    /\ QueueHead(p)
    /\ PoolHasFreeWorker
    /\ \E io \in IF mode = "package" THEN MaterializeOutcomesAt(fs, p)
                   ELSE {"none"},
          spawned \in BOOLEAN :
          /\ wrote' = [wrote EXCEPT ![p] = @ \cup Touched(p, io)]
          /\ IF io \in {"mkdir_error", "write_error"}
             THEN /\ fs' = Materialize(fs, p, io)
                  /\ Escapes(p)
                  /\ UNCHANGED << kind, cmd, started, timeout >>
             ELSE /\ fs' = IF io = "ok" THEN Materialize(fs, p, io) ELSE fs
                  /\ timeout' = [timeout EXCEPT ![p] = JobTimeout(mode)]
                  /\ IF spawned
                     THEN /\ jpc' = [jpc EXCEPT ![p] = "running"]
                          /\ started' = [started EXCEPT ![p] = @ + 1]
                          /\ UNCHANGED << kind, cmd >>
                     ELSE /\ jpc' = [jpc EXCEPT ![p] = "relock"]
                          /\ kind' = [kind EXCEPT ![p] = "error"]
                          /\ cmd' = [cmd EXCEPT ![p] = "spawn_error"]
                          /\ started' = started
                  /\ UNCHANGED << future, status, result >>
    /\ UNCHANGED << gen, ver, continue_on_error, log_writes, notice, mode, hasManifest, priorRun, jobs, pc, exitCode, inst, installs,
                    lock, tmp, completed_count, progress, collected,
                    failed_builds, summary >>

\* subprocess.run(COMMAND, capture_output=True, text=True, timeout=300)
\* ends: the command exited (0 or not) or was killed at the timeout.  After
\* an exit, decoding the output or LOG_FILE.write_text(log_content) may
\* raise: that is caught by `except Exception`.
CommandOutcomes == {"exit0", "exitN", "timeout"}
LogOfAlwaysZero(o) == "log_rc0"
LogOf(o) == IF o = "exit0" THEN "log_rc0" ELSE "log_rcN"

Finish(p) ==
    /\ jpc[p] = "running"
    /\ \E o \in CommandOutcomes, logged \in BOOLEAN :
          /\ cmd' = [cmd EXCEPT ![p] = o]
          /\ IF o = "timeout"
             THEN /\ kind' = [kind EXCEPT ![p] = "timeout"]
                  /\ fs' = fs
                  /\ wrote' = wrote
                  /\ log_writes' = log_writes
             ELSE IF logged
             THEN /\ kind' = [kind EXCEPT ![p] = IF o = "exit0" THEN "ok" ELSE "fail"]
                  /\ fs' = [fs EXCEPT ![log_file(p)] = LogOf(o)]
                  /\ wrote' = [wrote EXCEPT ![p] = @ \cup {log_file(p)}]
                  /\ log_writes' = [log_writes EXCEPT ![p] = @ + 1]
             ELSE /\ kind' = [kind EXCEPT ![p] = "error"]
                  /\ fs' = fs
                  /\ wrote' = wrote
                  /\ log_writes' = log_writes
    /\ jpc' = [jpc EXCEPT ![p] = "relock"]
    /\ UNCHANGED << gen, ver, continue_on_error, timeout, notice, mode, hasManifest, priorRun, jobs, pc, exitCode, inst, installs,
                    started, lock, tmp, completed_count, progress, future, result,
                    status, collected, failed_builds, summary >>

\* `with lock:` and the load of completed_count by `completed_count += 1`.
LockIgnored == TRUE
LockFree == lock = 0

Acquire(p) ==
    /\ jpc[p] = "relock"
    /\ LockFree
    /\ lock' = p
    /\ tmp' = [tmp EXCEPT ![p] = completed_count]
    /\ jpc' = [jpc EXCEPT ![p] = "inlock"]
    /\ UNCHANGED << wrote, gen, ver, continue_on_error, timeout, log_writes, notice, mode, hasManifest, priorRun, jobs, pc, exitCode, fs, inst,
                    installs, kind, cmd, started, completed_count, progress,
                    future, result, status, collected, failed_builds, summary >>

StatusOf(k) ==
    IF k = "ok" THEN "Success"
    ELSE IF k = "fail" THEN "Failure"
    ELSE IF k = "timeout" THEN "Timeout"
    ELSE "InternalError"

NoticeOf(k) == IF k = "timeout" THEN "log_timeout" ELSE "log_error"

\* The rest of the `with lock` block: the store of completed_count, the
\* progress line, in the two handlers LOG_FILE.write_text(notice), and the
\* return, which releases the lock.  A failing write_text in a handler is
\* caught by nothing.
Release(p) ==
    /\ jpc[p] = "inlock"
    /\ completed_count' = tmp[p] + 1
    /\ progress' = Append(progress,
                     [count |-> tmp[p] + 1, name |-> p, tag |-> kind[p]])
    /\ lock' = 0
    /\ IF kind[p] \in {"ok", "fail"}
       THEN /\ jpc' = [jpc EXCEPT ![p] = "done"]
            /\ future' = [future EXCEPT ![p] = "result"]
            /\ status' = [status EXCEPT ![p] = StatusOf(kind[p])]
            /\ result' = [result EXCEPT ![p] =
                  IF kind[p] = "ok" THEN BuildProfileResult(p, TRUE, None)
                  ELSE BuildProfileResult(p, FALSE, log_file(p))]
            /\ fs' = fs
            /\ wrote' = wrote
            /\ UNCHANGED << log_writes, notice >>
       ELSE \E logged \in BOOLEAN :
            IF logged
            THEN /\ jpc' = [jpc EXCEPT ![p] = "done"]
                 /\ future' = [future EXCEPT ![p] = "result"]
                 /\ status' = [status EXCEPT ![p] = StatusOf(kind[p])]
                 /\ result' = [result EXCEPT ![p] =
                                  BuildProfileResult(p, FALSE, log_file(p))]
                 /\ fs' = [fs EXCEPT ![log_file(p)] = NoticeOf(kind[p])]
                 /\ wrote' = [wrote EXCEPT ![p] = @ \cup {log_file(p)}]
                 /\ log_writes' = [log_writes EXCEPT ![p] = @ + 1]
                 /\ notice' = IF kind[p] = "timeout"
                              THEN [notice EXCEPT ![p] = NoticeSeconds(mode)]
                              ELSE notice
            ELSE /\ Escapes(p)
                 /\ fs' = fs
                 /\ wrote' = wrote
                 /\ UNCHANGED << log_writes, notice >>
    /\ UNCHANGED << gen, ver, continue_on_error, timeout, mode, hasManifest, priorRun, jobs, pc, exitCode, inst, installs,
                    kind, cmd, started, tmp, collected, failed_builds, summary >>

-----------------------------------------------------------------------------
(* Coordinator: as_completed loop, executor shutdown and summary           *)

\* for future in as_completed(...): result = future.result(), which
\* re-raises the exception of a job that ended with one.
Collect(p) ==
    /\ pc = "collect"
    /\ p \notin collected
    /\ future[p] \in {"result", "exception"}
    /\ IF future[p] = "exception"
       THEN /\ pc' = "unwind"
            /\ UNCHANGED << collected, failed_builds >>
       ELSE /\ collected' = collected \cup {p}
            /\ failed_builds' = IF ~result[p].success
                                THEN Append(failed_builds, result[p])
                                ELSE failed_builds
            /\ pc' = pc
    /\ UNCHANGED << wrote, gen, ver, continue_on_error, timeout, log_writes, notice, mode, hasManifest, priorRun, jobs, exitCode, fs, inst, installs,
                    jpc, kind, cmd, started, lock, tmp, completed_count, progress,
                    future, result, status, summary >>

\* Leaving `with ThreadPoolExecutor(...)` calls shutdown(wait=True): the
\* queued jobs still run and the coordinator waits for all of them.
ShutdownNoWait == TRUE
ShutdownComplete == \A p \in Profiles : jpc[p] = "done"

\* The exception of future.result() leaves the command once the pool is down.
Unwind ==
    /\ pc = "unwind"
    /\ ShutdownComplete
    /\ pc' = "raised"
    /\ UNCHANGED << wrote, gen, ver, continue_on_error, timeout, log_writes, notice, mode, hasManifest, priorRun, jobs, exitCode, fs, inst, installs,
                    jpc, kind, cmd, started, lock, tmp, completed_count, progress,
                    future, result, status, collected, failed_builds, summary >>

SummaryExitCodeAlwaysZero(failed) == 0
SummaryExitCode(failed) == IF Len(failed) > 0 THEN 1 ELSE 0

Summary ==
    /\ pc = "collect"
    /\ collected = Profiles
    /\ ShutdownComplete
    /\ summary' = [total |-> NumProfiles,
                   processed |-> completed_count,
                   succeeded |-> completed_count - Len(failed_builds),
                   failed |-> Len(failed_builds)]
    /\ exitCode' = SummaryExitCode(failed_builds)
    /\ pc' = "done"
    /\ UNCHANGED << wrote, gen, ver, continue_on_error, timeout, log_writes, notice, mode, hasManifest, priorRun, jobs, fs, inst, installs, jpc, kind,
                    cmd, started, lock, tmp, completed_count, progress, future,
                    result, status, collected, failed_builds >>

-----------------------------------------------------------------------------
Next ==
    \/ CheckManifest
    \/ InstallStart
    \/ InstallEnd
    \/ CreateExecutor
    \/ Submit
    \/ \E p \in Profiles : StartJob(p)
    \/ \E p \in Profiles : Finish(p)
    \/ \E p \in Profiles : Acquire(p)
    \/ \E p \in Profiles : Release(p)
    \/ \E p \in Profiles : Collect(p)
    \/ Unwind
    \/ Summary

Spec == Init /\ [][Next]_vars

\* The steps of the coordinating thread and of the worker running job p.
Coordinator ==
    \/ CheckManifest
    \/ InstallStart
    \/ CreateExecutor
    \/ Submit
    \/ \E p \in Profiles : Collect(p)
    \/ Unwind
    \/ Summary

Worker(p) == StartJob(p) \/ Acquire(p) \/ Release(p)

\* The threads are scheduled, and every external command exits or is
\* killed at its timeout (timeout=30 for the install, timeout=300 for the
\* jobs).
FairSpec ==
    /\ Spec
    /\ WF_vars(Coordinator)
    /\ WF_vars(InstallEnd)
    /\ \A p \in Profiles : WF_vars(Worker(p))
    /\ \A p \in Profiles : WF_vars(Finish(p))

-----------------------------------------------------------------------------
(* generate_arm_cortex_m_profiles(), one loop iteration per step           *)

orchestratorVars ==
    << mode, hasManifest, priorRun, jobs, pc, exitCode, fs, inst, installs,
       jpc, kind, cmd, started, lock, tmp, completed_count, progress,
       future, result, status, collected, failed_builds, summary, wrote,
       continue_on_error, timeout, log_writes, notice >>

\* The orchestrator stands still at the call of generate_all_profiles().
AtGenerate ==
    /\ OrchestratorInit
    /\ mode = "build"
    /\ hasManifest
    /\ ~priorRun
    /\ jobs = 1
    /\ ~continue_on_error

GeneratorInit ==
    /\ AtGenerate
    /\ gen = GenStart
    /\ ver = VerIdle

\* The version of the current iteration does not meet the minimum of the
\* architecture: continue.
GenSkip ==
    /\ gen.pc = "loop"
    /\ Skipped(compilers[gen.c].versions[gen.v], architectures[gen.a].min_version)
    /\ gen' = AfterVersion(gen)
    /\ UNCHANGED << orchestratorVars, ver >>

\* profiles.append(Profile(NAME, TEXT)) for the current build type.
GenEmit ==
    /\ gen.pc = "loop"
    /\ ~Skipped(compilers[gen.c].versions[gen.v], architectures[gen.a].min_version)
    /\ LET g == [gen EXCEPT !.profiles =
                    Append(@, Profile(architectures[gen.a].arch,
                                      compilers[gen.c].compiler,
                                      compilers[gen.c].versions[gen.v],
                                      build_types[gen.b],
                                      compilers[gen.c].package))]
       IN gen' = IF gen.b < Len(build_types)
                 THEN [g EXCEPT !.b = @ + 1]
                 ELSE AfterVersion(g)
    /\ UNCHANGED << orchestratorVars, ver >>

\* return profiles
GenReturn ==
    /\ gen.pc = "return"
    /\ gen' = [gen EXCEPT !.pc = "returned"]
    /\ UNCHANGED << orchestratorVars, ver >>

GeneratorNext == GenSkip \/ GenEmit \/ GenReturn

GeneratorSpec == GeneratorInit /\ [][GeneratorNext]_vars

-----------------------------------------------------------------------------
(* version_compare(v1, v2) applied to the pairs of three versions          *)

VersionInit ==
    /\ AtGenerate
    /\ gen = GenStart
    /\ \E a \in Versions, b \in Versions, c \in Versions :
          ver = [VerIdle EXCEPT !.pc = "args", !.a = a, !.b = b, !.c = c]

Compare ==
    /\ ver.pc = "args"
    /\ ver' = [ver EXCEPT !.pc = "compared",
                          !.ab = version_compare(ver.a, ver.b),
                          !.ba = version_compare(ver.b, ver.a),
                          !.bc = version_compare(ver.b, ver.c),
                          !.ac = version_compare(ver.a, ver.c),
                          !.aa = version_compare(ver.a, ver.a)]
    /\ UNCHANGED << orchestratorVars, gen >>

VersionNext == Compare

VersionSpec == VersionInit /\ [][VersionNext]_vars

-----------------------------------------------------------------------------
(* Properties                                                              *)

\* The command returned from its summary block.
AtSummary == pc = "done" /\ hasManifest

NonSuccess == {"Failure", "Timeout", "InternalError"}

\* C1: for hal_build_matrix and hal_package, once the manifest check has
\* passed and the run has reached the summary, the returned exit code is 0
\* if and only if no job of the parallel phase ended in a non-success
\* outcome (non-zero exit, timeout or internal error); otherwise it is 1.
C1_ExitCodeReflectsOutcomes ==
    AtSummary =>
        exitCode = IF \A p \in Profiles : status[p] = "Success" THEN 0 ELSE 1

\* C1 witness: a summary after one job timed out and another succeeded.
C1_Witness ==
    /\ AtSummary
    /\ exitCode = 1
    /\ \E p, q \in Profiles : status[p] = "Timeout" /\ status[q] = "Success"

\* C2: in every run that reaches the parallel phase each profile has its
\* build/package command started at most once and produces exactly one
\* BuildProfileResult: a job that has ended holds a result, and it is the
\* result of its own profile.
C2_ExactlyOneResultPerProfile ==
    \A p \in Profiles :
        /\ started[p] <= 1
        /\ jpc[p] = "done" => (future[p] = "result" /\ result[p].profile_name = p)

\* C3 as stated: at the summary succeeded + failed = total_profiles and
\* succeeded is the number of jobs whose command exited 0.
C3_SucceededCountsExitZero ==
    AtSummary =>
        /\ summary.succeeded + summary.failed = summary.total
        /\ summary.total = NumProfiles
        /\ summary.succeeded = Cardinality({p \in Profiles : cmd[p] = "exit0"})

\* C3 amended: at the summary succeeded + failed = total_profiles, succeeded
\* is the number of jobs that returned a successful result (their command
\* exited 0 and its output was decoded and logged without error), and
\* failed is the number of all the other jobs.
C3_SummaryCounts ==
    AtSummary =>
        /\ summary.succeeded + summary.failed = summary.total
        /\ summary.total = NumProfiles
        /\ summary.succeeded =
              Cardinality({p \in Profiles : status[p] = "Success"})
        /\ summary.failed =
              Cardinality({p \in Profiles : status[p] \in NonSuccess})

\* C3 witness: a summary where a command exited 0 and its job is nevertheless
\* counted as failed, next to a job counted as succeeded.
C3_Witness ==
    /\ AtSummary
    /\ \E p, q \in Profiles :
          /\ cmd[p] = "exit0" /\ status[p] = "InternalError"
          /\ status[q] = "Success"

\* C4: at every moment the number of jobs whose external build/package
\* command is running is at most args.jobs.
C4_RunningBoundedByJobs ==
    Cardinality({p \in Profiles : jpc[p] = "running"}) <= jobs

\* C4 witness: the pool is full of running commands while a job waits queued.
C4_Witness ==
    /\ jobs >= 1
    /\ Cardinality({p \in Profiles : jpc[p] = "running"}) = jobs
    /\ \E p \in Profiles : jpc[p] = "queued"

\* C5: a job ending in Failure, Timeout or InternalError never cancels or
\* skips another job: when the command ends after the parallel phase (by
\* its summary or by the exception of a job), every profile's job has been
\* run to its end, and its external command was started unless the job's own
\* materialization or spawn failed.
C5_SiblingsStillRun ==
    pc \in {"done", "raised"} /\ hasManifest =>
        \A p \in Profiles :
            /\ jpc[p] = "done"
            /\ status[p] # "none"
            /\ started[p] = 1 \/ cmd[p] \in {"none", "spawn_error"}

\* C5 witness: with one worker, the first job timed out and the second job,
\* started after it, still succeeded.
C5_Witness ==
    /\ jobs = 1
    /\ pc = "done"
    /\ NumProfiles >= 2
    /\ status[1] = "Timeout"
    /\ status[2] = "Success"

\* C6: in build mode the install pre-phase is sequential and precedes the
\* parallel phase: at most one install runs at a time, installs run in
\* generation order, and no build job is submitted or started before the
\* install of every profile has exited 0.
C6_InstallSequentialBeforeBuild ==
    mode = "build" =>
        /\ Cardinality({p \in Profiles : inst[p] = "running"}) <= 1
        /\ \A p, q \in Profiles :
              (q < p /\ inst[p] # "pending") => inst[q] = "exit0"
        /\ (\E p \in Profiles : jpc[p] # "pending" \/ started[p] > 0) =>
              \A q \in Profiles : inst[q] = "exit0"

\* C6 witness: the last install is running after the earlier ones exited 0
\* and no job has been submitted yet.
C6_Witness ==
    /\ mode = "build"
    /\ inst[NumProfiles] = "running"
    /\ \A q \in Profiles : q < NumProfiles => inst[q] = "exit0"
    /\ \A q \in Profiles : jpc[q] = "pending"

\* C7: in build mode, if the install of a profile fails (non-zero exit or
\* timeout) the run aborts at once: no install is run for a later profile,
\* no build job is ever submitted or started, and the command does not
\* return exit code 0.
C7_InstallFailureAborts ==
    \A p \in Profiles :
        inst[p] \in {"exitN", "timeout"} =>
            /\ pc = "aborted"
            /\ exitCode # 0
            /\ \A q \in Profiles :
                  /\ q > p => (inst[q] = "pending" /\ installs[q] = 0)
                  /\ jpc[q] = "pending"
                  /\ started[q] = 0

\* C7 witness: the install of the last profile timed out after the earlier
\* ones exited 0.
C7_Witness ==
    /\ inst[NumProfiles] = "timeout"
    /\ \A q \in Profiles : q < NumProfiles => inst[q] = "exit0"
    /\ pc = "aborted"

\* C8: without conanfile.py the command returns a non-zero exit code and
\* leaves the filesystem as it was: no directory is created, no profile or
\* log file is written and no external process is spawned.
C8_MissingManifestNoEffects ==
    ~hasManifest =>
        /\ fs = InitialFs(priorRun)
        /\ \A p \in Profiles : installs[p] = 0 /\ started[p] = 0
        /\ pc \in {"start", "done"}
        /\ pc = "done" => exitCode = 1

\* C8 witness: the command returned 1 for a directory without manifest and
\* without remains of an earlier run.
C8_Witness ==
    /\ ~hasManifest
    /\ ~priorRun
    /\ pc = "done"
    /\ exitCode = 1

\* C9: no error escapes a job of the parallel phase: every Future ends with
\* a BuildProfileResult, so future.result() never raises in the coordinator
\* and the run is never left by the exception of a job.
C9_NoErrorEscapesWorker ==
    /\ \A p \in Profiles : future[p] # "exception"
    /\ pc \notin {"unwind", "raised"}

\* C10: completed_count is loaded, stored and read for the progress line
\* only by the job holding the lock, the progress lines carry 1, 2, ... in
\* order, and once all N jobs have finished completed_count equals N and the
\* lines carry each of 1..N once.
C10_CountUnderLock ==
    /\ \A p \in Profiles : jpc[p] = "inlock" => lock = p
    /\ \A k \in 1..Len(progress) : progress[k].count = k
    /\ (\A p \in Profiles : jpc[p] = "done") =>
          (completed_count = NumProfiles /\ Len(progress) = NumProfiles)

\* C11 as stated: a job whose command exited 0 returns a successful result,
\* one whose command exited non-zero a failed result, and in both cases the
\* log holds the command line, `Return code: <n>` with the actual exit
\* status and the captured streams before the result is returned.
C11_ExitStatusDecidesResult ==
    \A p \in Profiles :
        (cmd[p] \in {"exit0", "exitN"} /\ jpc[p] = "done") =>
            /\ future[p] = "result"
            /\ result[p].success = (cmd[p] = "exit0")
            /\ fs[log_file(p)] = IF cmd[p] = "exit0" THEN "log_rc0" ELSE "log_rcN"

\* C11 amended: a job whose command exited and whose output was decoded and
\* written to the log without error returns a successful result after exit
\* status 0 and a failed result after a non-zero status, and from the write
\* on, so before the result is returned, its log holds the command line,
\* `Return code: <n>` with the actual exit status and the streams; a job
\* whose command exited non-zero never returns a successful result.
C11_LoggedExitDecidesResult ==
    \A p \in Profiles :
        /\ kind[p] \in {"ok", "fail"} =>
              /\ cmd[p] = (IF kind[p] = "ok" THEN "exit0" ELSE "exitN")
              /\ fs[log_file(p)] =
                    IF cmd[p] = "exit0" THEN "log_rc0" ELSE "log_rcN"
              /\ jpc[p] = "done" =>
                    /\ future[p] = "result"
                    /\ result[p].success = (cmd[p] = "exit0")
        /\ (cmd[p] = "exitN" /\ future[p] = "result") => ~result[p].success

\* C11 witness: one job returned success after exit 0 and another returned
\* failure after a non-zero exit, both with their run log written.
C11_Witness ==
    \E p, q \in Profiles :
        /\ future[p] = "result" /\ kind[p] = "ok" /\ result[p].success
        /\ fs[log_file(p)] = "log_rc0"
        /\ future[q] = "result" /\ kind[q] = "fail" /\ ~result[q].success
        /\ fs[log_file(q)] = "log_rcN"

\* What a BuildProfileResult tells apart from its profile name.
ResultShape(r) == << r.success, r.log_file # None >>

\* C12: a job whose command exceeded its timeout returns a result that is
\* classified Timeout and can be told from the result of a Failure and of an
\* InternalError, and its external process no longer runs when it returns.
C12_TimeoutDistinguishable ==
    \A p \in Profiles :
        (cmd[p] = "timeout" /\ future[p] = "result") =>
            /\ status[p] = "Timeout"
            /\ jpc[p] # "running"
            /\ \A q \in Profiles :
                  (future[q] = "result" /\ status[q] \in {"Failure", "InternalError"})
                     => ResultShape(result[p]) # ResultShape(result[q])

\* Names of the entries of a list of results.
NamesOf(failed) == {failed[k].profile_name : k \in 1..Len(failed)}

\* C13: the summary is a function of the outcomes of the profiles' jobs
\* alone, whatever the pool width and the schedule: total, succeeded and
\* failed counts, the set of failed profile names and the exit code are
\* those determined by the jobs' outcomes, so runs with max_workers = 1 and
\* max_workers = N over the same outcomes print the same summary.
C13_SummaryIndependentOfWidth ==
    AtSummary =>
        LET bad == {p \in Profiles : status[p] \in NonSuccess} IN
        /\ summary = [total |-> NumProfiles,
                      processed |-> NumProfiles,
                      succeeded |-> NumProfiles - Cardinality(bad),
                      failed |-> Cardinality(bad)]
        /\ NamesOf(failed_builds) = bad
        /\ exitCode = IF bad = {} THEN 0 ELSE 1

\* C13 witness: a summary of a run with more than one worker in which the
\* jobs completed in the reverse of their submission order.
C13_Witness ==
    /\ AtSummary
    /\ jobs >= 2
    /\ Len(progress) = NumProfiles
    /\ progress[1].name = NumProfiles
    /\ status[1] = "Failure"
    /\ status[NumProfiles] = "Success"

\* The (architecture, compiler, version, build type) tuples of the tables.
AllDims ==
    { << architectures[a].arch, compilers[c].compiler,
         compilers[c].versions[v], build_types[b] >> :
        c \in 1..Len(compilers), a \in 1..Len(architectures),
        v \in 1..Len(compilers[1].versions), b \in 1..Len(build_types) }

\* C14: the names of the generated profiles are pairwise distinct: no two
\* emitted profiles share their (architecture, compiler, compilerVersion,
\* buildType) tuple, and two distinct tuples of the tables never render to
\* the same name '{architecture}-{compiler}-{compilerVersion}-{buildType}'.
C14_NamesPairwiseDistinct ==
    /\ \A i, j \in 1..Len(gen.profiles) :
          i # j => /\ gen.profiles[i].name # gen.profiles[j].name
                   /\ gen.profiles[i].dims # gen.profiles[j].dims
    /\ gen.pc = "returned" =>
          \A t, u \in AllDims :
              t # u => NAME(t[1], t[2], t[3], t[4]) # NAME(u[1], u[2], u[3], u[4])

\* C14 witness: the generator returned its 177 profiles.
C14_Witness ==
    /\ gen.pc = "returned"
    /\ Len(gen.profiles) = 177

\* Dotted-numeric order of two versions: the first component (absent = 0) in
\* which they differ decides; the value is that of the smaller-or-not test.
ComponentAt(parts, i) == IF i <= Len(parts) THEN parts[i] ELSE 0
NumericallyLess(x, y) ==
    LET px == Parts(x)
        py == Parts(y)
    IN \E i \in 1..Max(Len(px), Len(py)) :
          /\ ComponentAt(px, i) < ComponentAt(py, i)
          /\ \A j \in 1..(i - 1) : ComponentAt(px, j) = ComponentAt(py, j)

MinVersionOf(arch) ==
    LET a == CHOOSE k \in 1..Len(architectures) : architectures[k].arch = arch
    IN architectures[a].min_version

\* The tuples the generator has to emit.
ExpectedDims ==
    { t \in AllDims :
        MinVersionOf(t[1]) = None \/ ~NumericallyLess(t[3], MinVersionOf(t[1])) }

EmittedDims == { gen.profiles[i].dims : i \in 1..Len(gen.profiles) }

\* C15: the generated set is the cross-product of compiler version x
\* architecture x build type minus the gated combinations: a profile of an
\* architecture with a minimum version is emitted if and only if its
\* compiler version is not below the minimum in dotted-numeric order (no
\* cortex-m85 profile with 12.3, all of 13.2, 13.3, 14.2), and every
\* version is emitted for an architecture without minimum.
C15_GatedCrossProduct ==
    /\ EmittedDims \subseteq ExpectedDims
    /\ gen.pc = "returned" =>
          /\ EmittedDims = ExpectedDims
          /\ \A t \in EmittedDims :
                ~(t[1] = "cortex-m85" /\ t[3] = << "1", "2", ".", "3" >>)
          /\ \A v \in { << "1", "3", ".", "2" >>, << "1", "3", ".", "3" >>,
                        << "1", "4", ".", "2" >> } :
                \A b \in 1..Len(build_types) :
                    << "cortex-m85", "gcc", v, build_types[b] >> \in EmittedDims
          /\ \A t \in AllDims : t[1] # "cortex-m85" => t \in EmittedDims

\* C15 witness: the generator returned, with cortex-m85 profiles for 13.2.
C15_Witness ==
    /\ gen.pc = "returned"
    /\ \E i \in 1..Len(gen.profiles) :
          /\ gen.profiles[i].dims[1] = "cortex-m85"
          /\ gen.profiles[i].dims[3] = << "1", "3", ".", "2" >>

\* C16: version_compare is a total, consistent order on dotted-numeric
\* versions: it compares the integer components left to right with absent
\* components as 0, compare(a,b) = -compare(b,a), compare(a,a) = 0, it is
\* transitive, '13' equals '13.0', '12.3' < '12.30' and
\* '13.2' < '13.3' < '14.2'.
C16_VersionCompareTotalOrder ==
    /\ ver.pc = "compared" =>
          /\ ver.ab \in {0 - 1, 0, 1}
          /\ ver.ab = 0 - ver.ba
          /\ ver.aa = 0
          /\ (ver.ab <= 0 /\ ver.bc <= 0) => ver.ac <= 0
          /\ (ver.ab = 0 /\ ver.bc = 0) => ver.ac = 0
          /\ (ver.ab < 0) = NumericallyLess(ver.a, ver.b)
          /\ (ver.ab > 0) = NumericallyLess(ver.b, ver.a)
    /\ version_compare(<< "1", "3" >>, << "1", "3", ".", "0" >>) = 0
    /\ version_compare(<< "1", "2", ".", "3" >>, << "1", "2", ".", "3", "0" >>) < 0
    /\ version_compare(<< "1", "3", ".", "2" >>, << "1", "3", ".", "3" >>) < 0
    /\ version_compare(<< "1", "3", ".", "3" >>, << "1", "4", ".", "2" >>) < 0

\* C16 witness: '3' was compared with '3.0' and found equal, and both are
\* below '3.30'.
C16_Witness ==
    /\ ver.pc = "compared"
    /\ ver.a = << "3" >>
    /\ ver.b = << "3", ".", "0" >>
    /\ ver.c = << "3", ".", "3", "0" >>
    /\ ver.ab = 0
    /\ ver.ac < 0
    /\ ver.bc < 0

\* C17: in the parallel phase no two jobs write the same path: a job writes
\* only below its own build-matrix/<profileName>/ directory, so the paths
\* written by two distinct jobs are disjoint.
C17_JobsWriteDisjointPaths ==
    \A p, q \in Profiles :
        /\ \A w \in wrote[p] : Len(w) >= 2 /\ w[1] = "build-matrix" /\ w[2] = p
        /\ p # q => wrote[p] \cap wrote[q] = {}

\* C17 witness: two jobs are in the pool at once and both wrote their log.
C17_Witness ==
    \E p, q \in Profiles :
        /\ p # q
        /\ log_file(p) \in wrote[p]
        /\ log_file(q) \in wrote[q]
        /\ jpc[p] = "relock"
        /\ jpc[q] = "relock"

\* C18: at the summary the failures list holds exactly the jobs with a
\* non-success outcome, each once, every entry carries the log path of its
\* profile and that log has been written by the job; a successful result
\* carries no log path and has no entry.
C18_FailuresListComplete ==
    AtSummary =>
        /\ Cardinality(NamesOf(failed_builds)) = Len(failed_builds)
        /\ NamesOf(failed_builds) =
              {p \in Profiles : status[p] \in NonSuccess}
        /\ \A k \in 1..Len(failed_builds) :
              LET r == failed_builds[k] IN
              /\ ~r.success
              /\ r.log_file # None
              /\ r.log_file = << "build-matrix", r.profile_name, "log" >>
              /\ r.log_file \in wrote[r.profile_name]
              /\ fs[r.log_file] \in {"log_rcN", "log_timeout", "log_error"}
        /\ \A p \in Profiles :
              status[p] = "Success" =>
                  (result[p].success /\ result[p].log_file = None)

\* C18 witness: a summary listing a timeout, next to a success.
C18_Witness ==
    /\ AtSummary
    /\ Len(failed_builds) = 1
    /\ status[failed_builds[1].profile_name] = "Timeout"
    /\ fs[failed_builds[1].log_file] = "log_timeout"
    /\ \E p \in Profiles : status[p] = "Success"

\* Paths created or written in this run, by the coordinator or by a job.
Written == UNION { wrote[w] : w \in 0..NumProfiles }

\* C19: materializing a profile is idempotent: an existing per-profile
\* directory is no error for mkdir, and once a profile has been materialized
\* its profile file holds the rendered text, whatever was there before, and
\* materializing it again leaves the filesystem as it is.
C19_MaterializeIdempotent ==
    \A p \in Profiles :
        /\ ~MkdirRaises(fs, build_dir(p))
        /\ profile_path(p) \in Written =>
              /\ fs[build_dir(p)] = "dir"
              /\ fs[profile_path(p)] = "profile"
              /\ Materialize(fs, p, "ok") = fs

\* C19 witness: a profile was materialized into the directory an earlier
\* run had left, over its stale profile file.
C19_Witness ==
    /\ priorRun
    /\ \E p \in Profiles :
          /\ profile_path(p) \in Written
          /\ fs[profile_path(p)] = "profile"

\* C20: a profile's build/package command never starts before its profile
\* file has been written, in build mode never before its own install exited
\* 0 (the coordinator materializes in the pre-phase), in package mode the
\* job itself materializes inside the parallel phase, and a job that has a
\* command outcome has started that command.
C20_ProfileStateOrder ==
    \A p \in Profiles :
        /\ (started[p] > 0 \/ jpc[p] = "running") =>
              /\ fs[profile_path(p)] = "profile"
              /\ mode = "build" =>
                    /\ inst[p] = "exit0"
                    /\ profile_path(p) \in wrote[0]
              /\ mode = "package" => profile_path(p) \in wrote[p]
        /\ mode = "package" =>
              /\ inst[p] = "pending"
              /\ profile_path(p) \notin wrote[0]
              /\ profile_path(p) \in Written => jpc[p] \notin {"pending", "queued"}
        /\ mode = "build" => profile_path(p) \notin wrote[p]
        /\ cmd[p] \in CommandOutcomes => started[p] = 1
        /\ status[p] # "none" => jpc[p] = "done"

\* C20 witness: in package mode a job is running its command on the profile
\* it has materialized itself while a later profile is not yet materialized.
C20_Witness ==
    /\ mode = "package"
    /\ \E p, q \in Profiles :
          /\ jpc[p] = "running"
          /\ profile_path(p) \in wrote[p]
          /\ jpc[q] = "queued"
          /\ profile_path(q) \notin Written

\* C21 as stated: the lock is only held inside a `with lock` block, never
\* by a job waiting on its external command, and once the parallel phase
\* has begun the run eventually reaches the summary with every profile in
\* a terminal state.
C21_TerminatesAtSummary ==
    /\ [](\A p \in Profiles : lock = p => jpc[p] = "inlock")
    /\ (pc = "submit") ~>
          (AtSummary /\ \A p \in Profiles : status[p] # "none")

\* C22 as stated: a job that has ended has called subprocess.run once,
\* spawning exactly one external process (none only when the spawn itself
\* failed), and has written its log file exactly once, whatever its outcome;
\* the log holds what this job wrote, not the content of an earlier run.
C22_OneProcessOneLogWrite ==
    \A p \in Profiles :
        jpc[p] = "done" =>
            /\ timeout[p] # 0
            /\ started[p] = 1 \/ (started[p] = 0 /\ cmd[p] = "spawn_error")
            /\ log_writes[p] = 1
            /\ log_file(p) \in wrote[p]
            /\ fs[log_file(p)] \in {"log_rc0", "log_rcN", "log_timeout", "log_error"}

\* C23: the shared aggregation state is never accessed concurrently without
\* synchronisation: failed_builds changes only in a step of the coordinator's
\* as_completed loop (no worker moves in that step), completed_count changes
\* only in the step of the worker that holds the lock, and the summary reads
\* completed_count and failed_builds only when every worker has finished and
\* the lock is free.
C23_AggregationStateSynchronised ==
    [][ /\ failed_builds' # failed_builds =>
              /\ pc = "collect"
              /\ jpc' = jpc
              /\ completed_count' = completed_count
        /\ completed_count' # completed_count =>
              \E p \in Profiles :
                  /\ lock = p
                  /\ jpc[p] = "inlock"
                  /\ jpc' = [jpc EXCEPT ![p] = "done"]
                  /\ lock' = 0
        /\ summary' # summary =>
              /\ \A p \in Profiles : jpc[p] = "done"
              /\ lock = 0
              /\ summary'.processed = completed_count
              /\ summary'.failed = Len(failed_builds)
      ]_vars

\* C23 witness: a pool of two workers has processed both profiles, one of
\* them failed, and the summary has been printed.
C23_Witness ==
    /\ AtSummary
    /\ jobs = 2
    /\ completed_count = 2
    /\ summary.processed = 2
    /\ Len(failed_builds) = 1

\* C24 as stated: the timeout enforced on every job's command is 300
\* seconds in build and in package mode, and a timeout notice written to a
\* job's log states the duration that was enforced on that job.
C24_TimeoutNoticeMatches ==
    \A p \in Profiles :
        /\ timeout[p] # 0 => timeout[p] = 300
        /\ notice[p] # 0 =>
              /\ kind[p] = "timeout"
              /\ fs[log_file(p)] = "log_timeout"
              /\ notice[p] = timeout[p]

====
